---- MODULE Spec2Model ----
(***************************************************************************)
(* A model of the bytecode virtual machine of src/src/machine.rs and of    *)
(* its 16-bit cell type of src/src/value.rs.                               *)
(*                                                                         *)
(* The machine (struct VM) is the record [memory, stack, registers, pc,    *)
(* input]; memory, stack and input are sequences of cells (a Rust index i  *)
(* is the TLA+ index i + 1), registers is a function on 0..7.  Every       *)
(* opcode of VM::step is a pure operator from the machine to a step        *)
(* result, and one action of the specification.  A Rust panic ends the     *)
(* process: it is the step result "Panicked", and the machine keeps what   *)
(* the code had already mutated when it panicked.                          *)
(***************************************************************************)
EXTENDS Integers, Sequences, FiniteSets, TLC

VARIABLES memory, stack, registers, pc, input,  \* the fields of struct VM
          file,       \* the contents of vm.ron (<<>>: the file does not exist)
          output,     \* the characters written to standard output so far
          state,      \* what the last step returned, or "Panicked"
          reads,      \* the number of lines read from standard input so far
          lastLine,   \* the last line read from standard input
          delivered,  \* the cells `in` has written since that line was read
          resumed     \* the steps called after step had returned Complete

vars == <<memory, stack, registers, pc, input, file, output, state, reads,
          lastLine, delivered, resumed>>

----------------------------------------------------------------------------
(* value.rs *)

MATH_MOD == 32768

U16 == 65536

\* const MATH_MASK: u16 = !(MATH_MOD as u16), the low 15 bits
MATH_MASK == (U16 - 1) - MATH_MOD

\* enum ValueState, as a record: tag and payload (0 where there is none)
Number(n) == [tag |-> "Number", val |-> n]

Register(i) == [tag |-> "Register", val |-> i]

Invalid == [tag |-> "Invalid", val |-> 0]

\* the classification with the last register selector left out
get_value_state_ShortRegisterRange(v) ==
    IF v <= 32767 THEN Number(v)
    ELSE IF v < 32775 THEN Register(v - 32768)
    ELSE Invalid

get_value_state(v) ==
    IF v <= 32767 THEN Number(v)
    ELSE IF v <= 32775 THEN Register(v - 32768)
    ELSE Invalid

\* Value::to_register: the register index, or "panic"
to_register_ok(v) == get_value_state(v).tag = "Register"

to_register(v) == get_value_state(v).val

\* to_number that lets a register selector through, as its index
to_number_ok_RegisterPasses(v) == get_value_state(v).tag # "Invalid"

\* Value::to_number: the number, and whether it panics instead
to_number_ok(v) == get_value_state(v).tag = "Number"

to_number(v) == get_value_state(v).val

\* Value::to_ascii: char::from_u32 fails on the surrogates only (a u16 is
\* never above 0x10FFFF)
to_ascii_ok(v) == ~(55296 <= v /\ v <= 57343)

to_ascii(v) == v

\* the result cut to 16 bits and not reduced
mew_from_math_Unreduced(value) == value % U16

\* Value::mew_from_math on a u32
mew_from_math(value) == value % MATH_MOD

\* u32 product of two u16 values, reduced as mew_from_math reduces it.  The
\* product of two u16 fits a u32; it is computed here on the residues of the
\* factors, which gives the same residue and stays within TLC's integers.
MulMath(a, b) == mew_from_math((a % MATH_MOD) * (b % MATH_MOD))

\* the sum that forgets its right operand
ValueAdd_LeftOnly(a, b) == mew_from_math(a)

ValueAdd(a, b) == mew_from_math(a + b)

ValueMul(a, b) == MulMath(a, b)

\* impl Rem: raw u16 remainder; the caller checks rhs # 0 (a panic otherwise)
ValueRem(a, b) == a % b

RECURSIVE BitsAnd(_, _, _)
BitsAnd(a, b, n) ==
    IF n = 0 THEN 0
    ELSE (IF a % 2 = 1 /\ b % 2 = 1 THEN 1 ELSE 0)
         + 2 * BitsAnd(a \div 2, b \div 2, n - 1)

RECURSIVE BitsOr(_, _, _)
BitsOr(a, b, n) ==
    IF n = 0 THEN 0
    ELSE (IF a % 2 = 1 \/ b % 2 = 1 THEN 1 ELSE 0)
         + 2 * BitsOr(a \div 2, b \div 2, n - 1)

ValueBitAnd(a, b) == BitsAnd(a, b, 16)

ValueBitOr(a, b) == BitsOr(a, b, 16)

\* the complement without the mask
ValueNot_Unmasked(a) == (U16 - 1) - a

\* impl Not: u16 complement, then the mask
ValueNot(a) == BitsAnd((U16 - 1) - a, MATH_MASK, 16)

----------------------------------------------------------------------------
(* machine.rs: Opcode *)

\* num_args with `out` counted among the opcodes without argument
num_args_OutWithoutArgument(op) ==
    CASE op \in {"Halt", "Noop", "Out"} -> 0
      [] op \in {"Push", "Pop", "Jmp", "Call", "Ret", "In"} -> 1
      [] op \in {"Set", "Jt", "Jf", "Not", "Rmem", "Wmem"} -> 2
      [] op \in {"Eq", "Gt", "Add", "Mult", "Mod", "And", "Or"} -> 3

\* Opcode::num_args
num_args(op) ==
    CASE op \in {"Halt", "Noop"} -> 0
      [] op \in {"Push", "Pop", "Jmp", "Call", "Ret", "Out", "In"} -> 1
      [] op \in {"Set", "Jt", "Jf", "Not", "Rmem", "Wmem"} -> 2
      [] op \in {"Eq", "Gt", "Add", "Mult", "Mod", "And", "Or"} -> 3

\* impl TryFrom<Value> for Opcode: the opcode, or "Err"
try_from(value) ==
    LET s == get_value_state(value) IN
    IF s.tag = "Number" THEN
        CASE s.val = 0 -> "Halt"
          [] s.val = 1 -> "Set"
          [] s.val = 2 -> "Push"
          [] s.val = 3 -> "Pop"
          [] s.val = 4 -> "Eq"
          [] s.val = 5 -> "Gt"
          [] s.val = 6 -> "Jmp"
          [] s.val = 7 -> "Jt"
          [] s.val = 8 -> "Jf"
          [] s.val = 9 -> "Add"
          [] s.val = 10 -> "Mult"
          [] s.val = 11 -> "Mod"
          [] s.val = 12 -> "And"
          [] s.val = 13 -> "Or"
          [] s.val = 14 -> "Not"
          [] s.val = 15 -> "Rmem"
          [] s.val = 16 -> "Wmem"
          [] s.val = 17 -> "Call"
          [] s.val = 18 -> "Ret"
          [] s.val = 19 -> "Out"
          [] s.val = 20 -> "In"
          [] s.val = 21 -> "Noop"
          [] OTHER -> "Err"
    ELSE "Err"

----------------------------------------------------------------------------
(* machine.rs: VM *)

\* VM::new
New(image) ==
    [memory |-> image, stack |-> <<>>, registers |-> [i \in 0..7 |-> 0],
     pc |-> 0, input |-> <<>>]

\* the machine the variables hold
Self ==
    [memory |-> memory, stack |-> stack, registers |-> registers, pc |-> pc,
     input |-> input]

\* a step's result: the machine it leaves, what it returns, what it prints
Result(self, ret, out) == [vm |-> self, ret |-> ret, out |-> out]

Panic(self) == Result(self, "Panicked", <<>>)

\* the end of step: self.pc += opcode.num_args() + 1; ExecutionState::Running
Advance(self, op, out) ==
    Result([self EXCEPT !.pc = @ + num_args(op) + 1], "Running", out)

\* self.memory[self.pc + offset] is within the image
InBounds(self, offset) == self.pc + offset < Len(self.memory)

get_memory(self, offset) == self.memory[self.pc + offset + 1]

get_value(self, offset) ==
    LET v == get_memory(self, offset)
        s == get_value_state(v)
    IN  IF s.tag = "Register" THEN self.registers[s.val] ELSE v

\* VM::set_memory does not panic
set_memory_ok(self, target) ==
    LET s == get_value_state(target) IN
    CASE s.tag = "Number" -> s.val < Len(self.memory)
      [] s.tag = "Register" -> TRUE
      [] s.tag = "Invalid" -> FALSE

\* set_memory that takes a plain number for a register index
set_memory_NumberAsRegister(self, target, value) ==
    LET s == get_value_state(target) IN
    [self EXCEPT !.registers[s.val % 8] = value]

set_memory(self, target, value) ==
    LET s == get_value_state(target) IN
    IF s.tag = "Number" THEN [self EXCEPT !.memory[s.val + 1] = value]
    ELSE [self EXCEPT !.registers[s.val] = value]

\* target = get_memory(1); set_memory(target, value); advance
Write(self, op, value) ==
    LET target == get_memory(self, 1) IN
    IF set_memory_ok(self, target)
    THEN Advance(set_memory(self, target, value), op, <<>>)
    ELSE Panic(self)

\* halt that steps over its own cell
OpHalt_Advances(self) == Result([self EXCEPT !.pc = @ + 1], "Complete", <<>>)

OpHalt(self) == Result(self, "Complete", <<>>)

OpSet(self) ==
    IF InBounds(self, 1) /\ to_register_ok(get_memory(self, 1)) /\ InBounds(self, 2)
    THEN Advance([self EXCEPT !.registers[to_register(get_memory(self, 1))] =
                      get_value(self, 2)], "Set", <<>>)
    ELSE Panic(self)

OpPush(self) ==
    IF InBounds(self, 1)
    THEN Advance([self EXCEPT !.stack = Append(@, get_value(self, 1))], "Push", <<>>)
    ELSE Panic(self)

\* pop that takes 0 from an empty stack
OpPop_EmptyStackGivesZero(self) ==
    IF InBounds(self, 1) THEN Write(self, "Pop", 0) ELSE Panic(self)

OpPop(self) ==
    IF self.stack = <<>> THEN Panic(self)
    ELSE LET value == self.stack[Len(self.stack)]
             popped == [self EXCEPT !.stack = SubSeq(@, 1, Len(@) - 1)]
         IN  IF InBounds(popped, 1) THEN Write(popped, "Pop", value)
             ELSE Panic(popped)

\* eq with the two results exchanged
OpEq_Inverted(self) ==
    IF InBounds(self, 3)
    THEN Write(self, "Eq", IF get_value(self, 2) = get_value(self, 3) THEN 0 ELSE 1)
    ELSE Panic(self)

OpEq(self) ==
    IF InBounds(self, 3)
    THEN Write(self, "Eq", IF get_value(self, 2) = get_value(self, 3) THEN 1 ELSE 0)
    ELSE Panic(self)

OpGt(self) ==
    IF InBounds(self, 3)
    THEN Write(self, "Gt", IF get_value(self, 2) > get_value(self, 3) THEN 1 ELSE 0)
    ELSE Panic(self)

OpJmp(self) ==
    IF InBounds(self, 1) /\ to_number_ok(get_value(self, 1))
    THEN Result([self EXCEPT !.pc = to_number(get_value(self, 1))], "Running", <<>>)
    ELSE Panic(self)

\* the second half of jt and jf: self.pc = self.get_value(2).to_number()
Jump2(self) ==
    IF InBounds(self, 2) /\ to_number_ok(get_value(self, 2))
    THEN Result([self EXCEPT !.pc = to_number(get_value(self, 2))], "Running", <<>>)
    ELSE Panic(self)

OpJt(self) ==
    IF InBounds(self, 1) /\ to_number_ok(get_value(self, 1))
    THEN IF to_number(get_value(self, 1)) # 0 THEN Jump2(self)
         ELSE Advance(self, "Jt", <<>>)
    ELSE Panic(self)

OpJf(self) ==
    IF InBounds(self, 1) /\ to_number_ok(get_value(self, 1))
    THEN IF to_number(get_value(self, 1)) = 0 THEN Jump2(self)
         ELSE Advance(self, "Jf", <<>>)
    ELSE Panic(self)

OpAdd(self) ==
    IF InBounds(self, 3)
    THEN Write(self, "Add", ValueAdd(get_value(self, 2), get_value(self, 3)))
    ELSE Panic(self)

OpMult(self) ==
    IF InBounds(self, 3)
    THEN Write(self, "Mult", ValueMul(get_value(self, 2), get_value(self, 3)))
    ELSE Panic(self)

\* mod that gives the dividend back when the divisor is 0
OpMod_ZeroDivisorGivesDividend(self) ==
    IF InBounds(self, 3)
    THEN IF get_value(self, 3) # 0
         THEN Write(self, "Mod", ValueRem(get_value(self, 2), get_value(self, 3)))
         ELSE Write(self, "Mod", get_value(self, 2))
    ELSE Panic(self)

OpMod(self) ==
    IF InBounds(self, 3) /\ get_value(self, 3) # 0
    THEN Write(self, "Mod", ValueRem(get_value(self, 2), get_value(self, 3)))
    ELSE Panic(self)

OpAnd(self) ==
    IF InBounds(self, 3)
    THEN Write(self, "And", ValueBitAnd(get_value(self, 2), get_value(self, 3)))
    ELSE Panic(self)

OpOr(self) ==
    IF InBounds(self, 3)
    THEN Write(self, "Or", ValueBitOr(get_value(self, 2), get_value(self, 3)))
    ELSE Panic(self)

OpNot(self) ==
    IF InBounds(self, 2)
    THEN Write(self, "Not", ValueNot(get_value(self, 2)))
    ELSE Panic(self)

OpRmem(self) ==
    IF /\ InBounds(self, 2)
       /\ to_number_ok(get_value(self, 2))
       /\ to_number(get_value(self, 2)) < Len(self.memory)
    THEN Write(self, "Rmem", self.memory[to_number(get_value(self, 2)) + 1])
    ELSE Panic(self)

OpWmem(self) ==
    IF /\ InBounds(self, 2)
       /\ to_number_ok(get_value(self, 1))
       /\ to_number(get_value(self, 1)) < Len(self.memory)
    THEN Advance([self EXCEPT !.memory[to_number(get_value(self, 1)) + 1] =
                      get_value(self, 2)], "Wmem", <<>>)
    ELSE Panic(self)

\* the return address one cell short: the operand of the call
ReturnAddress_Operand(self) == (self.pc + 1) % U16

\* Value::mew((self.pc + 2) as u16): the cast keeps the low 16 bits
ReturnAddress(self) == (self.pc + 2) % U16

OpCall(self) ==
    IF InBounds(self, 1)
    THEN LET a == get_value(self, 1)
             pushed == [self EXCEPT !.stack = Append(@, ReturnAddress(self))]
         IN  IF to_number_ok(a)
             THEN Result([pushed EXCEPT !.pc = to_number(a)], "Running", <<>>)
             ELSE Panic(pushed)
    ELSE Panic(self)

\* ret that treats the empty stack as pop does
OpRet_EmptyStackPanics(self) ==
    IF self.stack # <<>>
    THEN LET value == self.stack[Len(self.stack)]
             popped == [self EXCEPT !.stack = SubSeq(@, 1, Len(@) - 1)]
         IN  IF to_number_ok(value)
             THEN Result([popped EXCEPT !.pc = to_number(value)], "Running", <<>>)
             ELSE Panic(popped)
    ELSE Panic(self)

OpRet(self) ==
    IF self.stack # <<>>
    THEN LET value == self.stack[Len(self.stack)]
             popped == [self EXCEPT !.stack = SubSeq(@, 1, Len(@) - 1)]
         IN  IF to_number_ok(value)
             THEN Result([popped EXCEPT !.pc = to_number(value)], "Running", <<>>)
             ELSE Panic(popped)
    ELSE Result(self, "Complete", <<>>)

OpOut(self) ==
    IF InBounds(self, 1) /\ to_ascii_ok(get_value(self, 1))
    THEN Advance(self, "Out", <<to_ascii(get_value(self, 1))>>)
    ELSE Panic(self)

OpNoop(self) == Advance(self, "Noop", <<>>)

\* the decode error taken as the end of the program
OpErr_Halts(self) == Result([self EXCEPT !.pc = @ + 1], "Complete", <<>>)

\* Err(msg): the diagnostic goes to standard error, which is not modelled
OpErr(self) == Result([self EXCEPT !.pc = @ + 1], "Running", <<>>)

----------------------------------------------------------------------------
(* machine.rs: the `in` opcode, save and load *)

\* the texts the code handles and prints, as their bytes
SAVE == <<115, 97, 118, 101>>

LOAD == <<108, 111, 97, 100>>

LOOK == <<108, 111, 111, 107>>

MEWLINE == 10

PromptText == <<62, 32>>

SavedText == <<61, 61, 61, 32, 83, 116, 97, 116, 101, 32, 83, 97, 118, 101, 100, 32, 61, 61, 61, 10>>

LoadedText == <<61, 61, 61, 32, 83, 116, 97, 116, 101, 32, 76, 111, 97, 100, 101, 100, 32, 61, 61, 61, 10>>

NonAsciiText == <<67, 97, 110, 110, 111, 116, 32, 117, 115, 101, 32, 110, 111, 110, 45, 97, 115, 99, 105, 105, 32, 105, 110, 112, 117, 116, 33, 10>>

\* is_ascii that looks at the first byte only
is_ascii_FirstByteOnly(line) == line = <<>> \/ line[1] < 128

\* str::is_ascii
is_ascii(line) == \A i \in 1..Len(line) : line[i] < 128

\* a snapshot that leaves the stack out
Serialize_WithoutStack(self) ==
    <<Len(self.memory)>> \o self.memory
    \o <<0>>
    \o [i \in 1..8 |-> self.registers[i - 1]]
    \o <<self.pc>>
    \o <<Len(self.input)>> \o self.input

\* ron::to_string(self): the fields in declaration order, each sequence after
\* its length, as one stream of numbers
Serialize(self) ==
    <<Len(self.memory)>> \o self.memory
    \o <<Len(self.stack)>> \o self.stack
    \o [i \in 1..8 |-> self.registers[i - 1]]
    \o <<self.pc>>
    \o <<Len(self.input)>> \o self.input

\* ron::from_str: reads the stream back, field by field
Deserialize(data) ==
    LET nMem == data[1]
        mem == SubSeq(data, 2, 1 + nMem)
        atStack == 2 + nMem
        nStack == data[atStack]
        stk == SubSeq(data, atStack + 1, atStack + nStack)
        atRegs == atStack + nStack + 1
        atPc == atRegs + 8
        nInput == data[atPc + 1]
    IN  [memory |-> mem, stack |-> stk,
         registers |-> [i \in 0..7 |-> data[atRegs + i]],
         pc |-> data[atPc],
         input |-> SubSeq(data, atPc + 2, atPc + 1 + nInput)]

\* a result of `in`: also the file it leaves and the cells it delivered
InResult(r, f, got) ==
    [vm |-> r.vm, ret |-> r.ret, out |-> r.out, file |-> f, got |-> got]

\* let value = self.input.pop_front().unwrap(); set_memory(target, value)
Deliver(self, f, out) ==
    IF self.input = <<>> THEN InResult(Result(self, "Panicked", out), f, <<>>)
    ELSE LET value == Head(self.input)
             popped == [self EXCEPT !.input = Tail(@)]
         IN  IF InBounds(popped, 1) /\ set_memory_ok(popped, get_memory(popped, 1))
             THEN InResult(Advance(set_memory(popped, get_memory(popped, 1), value),
                                   "In", out), f, <<value>>)
             ELSE InResult(Result(popped, "Panicked", out), f, <<>>)

\* the line queued without its newline
Queue_WithoutNewline(self, line) == [self EXCEPT !.input = @ \o line]

\* self.input.extend(line.bytes()); self.input.push_back(MEWLINE)
Queue(self, line) == [self EXCEPT !.input = @ \o line \o <<MEWLINE>>]

\* save without the early return: the line is queued like any other
OnSave_FallsThrough(self) ==
    Deliver(Queue(self, SAVE), Serialize(self), PromptText \o SavedText)

\* "save": the snapshot is written, nothing is queued or delivered, and the
\* step returns at once
OnSave(self) ==
    InResult(Result(self, "Running", PromptText \o SavedText), Serialize(self), <<>>)

\* load that restores everything but the registers
OnLoad_KeepsRegisters(self, f) ==
    Queue([Deserialize(f) EXCEPT !.registers = self.registers], LOOK)

\* "load": *self = ron::from_str(..); line = "look"
OnLoad(self, f) == Queue(Deserialize(f), LOOK)

\* a line that is not ASCII: nothing is queued, and the step returns at once
OnNonAscii(self, f) ==
    InResult(Result(self, "Running", PromptText \o NonAsciiText), f, <<>>)

\* Opcode::In, with `line` the line standard input holds and f the file vm.ron
OpIn(self, f, line) ==
    IF self.input = <<>> THEN
        IF line = SAVE THEN OnSave(self)
        ELSE IF line = LOAD THEN
            IF f = <<>> THEN InResult(Result(self, "Panicked", PromptText), f, <<>>)
            ELSE Deliver(OnLoad(self, f), f, PromptText \o LoadedText)
        ELSE IF ~is_ascii(line) THEN OnNonAscii(self, f)
        ELSE Deliver(Queue(self, line), f, PromptText)
    ELSE Deliver(self, f, <<>>)

----------------------------------------------------------------------------
(* The programs the machine is started on, and the lines typed at it *)

\* the lines of standard input that one `in` reads
MaxReads == 3

\* the calls of step on a machine that has returned Complete
MaxResumed == 2

\* a, hi, the empty line, two lines that are not ASCII, and the commands
Lines ==
    {SAVE, LOAD, LOOK, <<>>, <<97>>, <<104, 105>>, <<195, 169>>, <<97, 195, 169>>}

\* set r1 65; add r0 r1 4; out r0; halt
ProgAdd == <<1, 32769, 65, 9, 32768, 32769, 4, 19, 32768, 0>>

\* four cells that are no opcode, then noop, then the end of the image
ProgUnknown == <<99, 32768, 40000, 22, 21>>

\* push 7; set r1 5; L: in r0; out r0; jmp L
ProgEcho == <<2, 7, 1, 32769, 5, 20, 32768, 19, 32768, 6, 5>>

\* set r2 9; push 8; in [12]; in r0; out r0; halt; a data cell
ProgPrior == <<1, 32770, 9, 2, 8, 20, 12, 20, 32768, 19, 32768, 0, 0>>

\* in, with an invalid destination
ProgInvalidDest == <<20, 40000>>

\* call F; out B; halt; F: out A; ret
ProgCall == <<17, 5, 19, 66, 0, 19, 65, 18>>

\* jmp 32766; ret; ...; at 32766: call 2
ProgCallHigh ==
    [i \in 1..MATH_MOD |->
        CASE i = 1 -> 6
          [] i = 2 -> MATH_MOD - 2
          [] i = 3 -> 18
          [] i = MATH_MOD - 1 -> 17
          [] i = MATH_MOD -> 2
          [] OTHER -> 0]

\* noop; ret
ProgRet == <<21, 18>>

\* pop r0, on an empty stack
ProgPopEmpty == <<3, 32768>>

\* one of each remaining opcode
ProgOps ==
    <<7, 0, 100,                    \*  0: jt 0 100
      8, 1, 100,                    \*  3: jf 1 100
      2, 6,                         \*  6: push 6
      3, 32768,                     \*  8: pop r0
      4, 32769, 32768, 6,           \* 10: eq r1 r0 6
      5, 32770, 32768, 3,           \* 14: gt r2 r0 3
      7, 32769, 22,                 \* 18: jt r1 22
      0,                            \* 21: halt
      8, 0, 26,                     \* 22: jf 0 26
      0,                            \* 25: halt
      10, 32771, 32768, 32768,      \* 26: mult r3 r0 r0
      11, 32772, 32771, 5,          \* 30: mod r4 r3 5
      12, 32773, 32771, 32768,      \* 34: and r5 r3 r0
      13, 32774, 32771, 32768,      \* 38: or r6 r3 r0
      14, 32775, 32768,             \* 42: not r7 r0
      15, 32768, 1,                 \* 45: rmem r0 1
      16, 54, 32768,                \* 48: wmem 54 r0
      19, 33,                       \* 51: out 33
      0,                            \* 53: halt
      0>>                           \* 54: a data cell

\* eq r0 5 5; eq [14] r0 5; eq r1 40000 40000; halt; two data cells
ProgEq == <<4, 32768, 5, 5, 4, 14, 32768, 5, 4, 32769, 40000, 40000, 0, 0, 9>>

\* the cells the arithmetic is tried on: small numbers, bit patterns, and the
\* two ends of each of the three ranges of a cell
Samples ==
    {0, 1, 3, 255, 10922, 16384, 21845, 32767, 32768, 32775, 32776, 40000,
     50000, 65535}

\* rmem r0 [34]; rmem r1 [35]; add r2 r0 r1; add r3 r1 r0; mult r4 r0 r1;
\* mult r5 r1 r0; not r6 r0; not r7 r6; mod [36] r0 r1; halt
ArithCode ==
    <<15, 32768, 34,                \*  0: rmem r0 34
      15, 32769, 35,                \*  3: rmem r1 35
      9, 32770, 32768, 32769,       \*  6: add r2 r0 r1
      9, 32771, 32769, 32768,       \* 10: add r3 r1 r0
      10, 32772, 32768, 32769,      \* 14: mult r4 r0 r1
      10, 32773, 32769, 32768,      \* 18: mult r5 r1 r0
      14, 32774, 32768,             \* 22: not r6 r0
      14, 32775, 32774,             \* 25: not r7 r6
      11, 36, 32768, 32769,         \* 28: mod [36] r0 r1
      0>>                           \* 32: halt

\* the arithmetic on the cells x and y, which it reads from 34 and 35
ProgArith(x, y) == ArithCode \o <<0, x, y, 0>>

\* noop; pop into d; halt
ProgPopTo(d) == <<21, 3, d, 0>>

PopDests == {32775, 2, 40000}

\* the instructions that convert register 0 to a number
NumberUses ==
    <<<<6, 32768, 21>>,             \* jmp r0
      <<7, 32768, 6>>,              \* jt r0 6
      <<7, 1, 32768>>,              \* jt 1 r0
      <<8, 32768, 6>>,              \* jf r0 6
      <<8, 0, 32768>>,              \* jf 0 r0
      <<15, 32769, 32768>>,         \* rmem r1 r0
      <<16, 32768, 1>>,             \* wmem r0 1
      <<17, 32768, 21>>,            \* call r0
      <<2, 32768, 18>>>>            \* push r0; ret

NumberCells == {6, 32768, 32775, 32776, 65535}

\* rmem r0 9; the k-th use of r0; halt; the cell v that r0 is loaded with
ProgNumber(k, v) == <<15, 32768, 9>> \o NumberUses[k] \o <<0, 0, 0, v>>

\* the instructions that write through the address operand d
Writers(d) ==
    <<<<3, d, 21, 21>>,             \* pop d
      <<4, d, 5, 5>>,               \* eq d 5 5
      <<5, d, 6, 5>>,               \* gt d 6 5
      <<9, d, 3, 4>>,               \* add d 3 4
      <<10, d, 3, 4>>,              \* mult d 3 4
      <<11, d, 7, 4>>,              \* mod d 7 4
      <<12, d, 6, 3>>,              \* and d 6 3
      <<13, d, 6, 3>>,              \* or d 6 3
      <<14, d, 0, 21>>,             \* not d 0
      <<15, d, 0, 21>>,             \* rmem d 0
      <<20, d, 21, 21>>>>           \* in d

\* register 1, the last cell of the image, a cell past the image, an invalid cell
WriteDests == {32769, 8, 100, 40000}

\* push 5; the k-th writer with destination d; halt; two data cells
ProgWrite(k, d) == <<2, 5>> \o Writers(d)[k] \o <<0, 0, 1>>

Programs ==
    {ProgAdd, ProgUnknown, ProgEcho, ProgPrior, ProgInvalidDest, ProgCall,
     ProgCallHigh, ProgRet, ProgPopEmpty, ProgOps, ProgEq}
    \cup {ProgArith(x, y) : x \in Samples, y \in Samples}
    \cup {ProgPopTo(d) : d \in PopDests}
    \cup {ProgNumber(k, v) : k \in 1..Len(NumberUses), v \in NumberCells}
    \cup {ProgWrite(k, d) : k \in 1..Len(Writers(0)), d \in WriteDests}

\* vm.ron as an earlier run of ProgPrior left it: saved at its first `in`
PriorSnapshot ==
    Serialize([memory |-> ProgPrior, stack |-> <<8>>,
               registers |-> [i \in 0..7 |-> IF i = 2 THEN 9 ELSE 0],
               pc |-> 5, input |-> <<>>])

----------------------------------------------------------------------------
(* The specification: VM::new, then calls of VM::step *)

Init ==
    /\ \E image \in Programs :
          /\ memory = New(image).memory
          /\ stack = New(image).stack
          /\ registers = New(image).registers
          /\ pc = New(image).pc
          /\ input = New(image).input
    /\ file \in {<<>>, PriorSnapshot}
    /\ output = <<>>
    /\ state = "Running"
    /\ reads = 0
    /\ lastLine = <<>>
    /\ delivered = <<>>
    /\ resumed = 0

\* let opcode = self.get_instruction().  step is public: the loop of run calls
\* it while it returns Running, and a caller may call it again on a machine
\* that returned Complete; a panic ends the process, and no step follows it.
Fetch(op) ==
    /\ state # "Panicked"
    /\ state = "Complete" => resumed < MaxResumed
    /\ pc < Len(memory)
    /\ try_from(memory[pc + 1]) = op

\* the step leaves the machine of r, returns r.ret and has printed r.out
Machine(r) ==
    /\ memory' = r.vm.memory
    /\ stack' = r.vm.stack
    /\ registers' = r.vm.registers
    /\ pc' = r.vm.pc
    /\ input' = r.vm.input
    /\ output' = output \o r.out
    /\ state' = r.ret
    /\ resumed' = IF state = "Complete" THEN resumed + 1 ELSE resumed

Apply(r) ==
    /\ Machine(r)
    /\ UNCHANGED <<file, reads, lastLine, delivered>>

StepHalt == Fetch("Halt") /\ Apply(OpHalt(Self))

StepSet == Fetch("Set") /\ Apply(OpSet(Self))

StepPush == Fetch("Push") /\ Apply(OpPush(Self))

StepPop == Fetch("Pop") /\ Apply(OpPop(Self))

StepEq == Fetch("Eq") /\ Apply(OpEq(Self))

StepGt == Fetch("Gt") /\ Apply(OpGt(Self))

StepJmp == Fetch("Jmp") /\ Apply(OpJmp(Self))

StepJt == Fetch("Jt") /\ Apply(OpJt(Self))

StepJf == Fetch("Jf") /\ Apply(OpJf(Self))

StepAdd == Fetch("Add") /\ Apply(OpAdd(Self))

StepMult == Fetch("Mult") /\ Apply(OpMult(Self))

StepMod == Fetch("Mod") /\ Apply(OpMod(Self))

StepAnd == Fetch("And") /\ Apply(OpAnd(Self))

StepOr == Fetch("Or") /\ Apply(OpOr(Self))

StepNot == Fetch("Not") /\ Apply(OpNot(Self))

StepRmem == Fetch("Rmem") /\ Apply(OpRmem(Self))

StepWmem == Fetch("Wmem") /\ Apply(OpWmem(Self))

StepCall == Fetch("Call") /\ Apply(OpCall(Self))

StepRet == Fetch("Ret") /\ Apply(OpRet(Self))

StepOut == Fetch("Out") /\ Apply(OpOut(Self))

StepNoop == Fetch("Noop") /\ Apply(OpNoop(Self))

\* `in` reads a line only when the queue is empty
StepIn ==
    /\ Fetch("In")
    /\ input = <<>> => reads < MaxReads
    /\ \E line \in Lines :
          LET r == OpIn(Self, file, line) IN
          /\ Machine(r)
          /\ file' = r.file
          /\ reads' = IF input = <<>> THEN reads + 1 ELSE reads
          /\ lastLine' = IF input = <<>> THEN line ELSE lastLine
          /\ delivered' = (IF input = <<>> THEN <<>> ELSE delivered) \o r.got

StepErr == Fetch("Err") /\ Apply(OpErr(Self))

\* self.memory[self.pc] is outside the image: get_instruction panics
StepFetchPanic ==
    /\ state # "Panicked"
    /\ pc >= Len(memory)
    /\ Apply(Panic(Self))

Next ==
    \/ StepHalt
    \/ StepSet
    \/ StepPush
    \/ StepPop
    \/ StepEq
    \/ StepGt
    \/ StepJmp
    \/ StepJt
    \/ StepJf
    \/ StepAdd
    \/ StepMult
    \/ StepMod
    \/ StepAnd
    \/ StepOr
    \/ StepNot
    \/ StepRmem
    \/ StepWmem
    \/ StepCall
    \/ StepRet
    \/ StepOut
    \/ StepIn
    \/ StepNoop
    \/ StepErr
    \/ StepFetchPanic

Spec == Init /\ [][Next]_vars

----------------------------------------------------------------------------
(* The claims *)

Opcodes ==
    {"Halt", "Set", "Push", "Pop", "Eq", "Gt", "Jmp", "Jt", "Jf", "Add", "Mult",
     "Mod", "And", "Or", "Not", "Rmem", "Wmem", "Call", "Ret", "Out", "In", "Noop"}

\* the arity column of the opcode table
TableArity(op) ==
    CASE op \in {"Halt", "Ret", "Noop"} -> 0
      [] op \in {"Push", "Pop", "Jmp", "Call", "Out", "In"} -> 1
      [] op \in {"Set", "Jt", "Jf", "Not", "Rmem", "Wmem"} -> 2
      [] op \in {"Eq", "Gt", "Add", "Mult", "Mod", "And", "Or"} -> 3

\* this step is an `in` that reads the line `line` from standard input
Reads(line) ==
    /\ Fetch("In")
    /\ input = <<>>
    /\ reads' = reads + 1
    /\ lastLine' = line

\* the line holds a byte outside ASCII
HasHighByte(line) == \E i \in 1..Len(line) : line[i] >= 128

\* this step is an `in` that reads a line that is not ASCII
ReadsNonAscii == \E line \in Lines : HasHighByte(line) /\ Reads(line)

\* the opcode fetched redirects the pc, or leaves it where it is by design
Redirects(op) ==
    \/ op \in {"Halt", "Jmp", "Call", "Ret"}
    \/ op = "Jt" /\ get_value(Self, 1) # 0
    \/ op = "Jf" /\ get_value(Self, 1) = 0
    \/ op = "In" /\ (Reads(SAVE) \/ Reads(LOAD) \/ ReadsNonAscii)

\* C1: a step that executes a decoded opcode and does not fault moves the pc
\* by 1 + the opcode's arity in the opcode table, unless the opcode redirects
\* it (jmp, a taken jt or jf, call, ret), leaves it by design (halt, ret on
\* an empty stack, `in` reading save or a non-ASCII line) or replaces the
\* state (`in` reading load, which moves the loaded pc by 1 + the arity).
C1_PcAdvance ==
    [][\A op \in Opcodes :
          (Fetch(op) /\ state' # "Panicked") =>
              /\ ~Redirects(op) => pc' = pc + 1 + TableArity(op)
              /\ Reads(LOAD) => pc' = Deserialize(file).pc + 1 + TableArity(op)]_vars

\* eq at 10 of ProgOps, an opcode of arity 3, has executed
C1_Witness ==
    /\ Len(memory) = Len(ProgOps)
    /\ pc = 14
    /\ registers[1] = 1
    /\ state = "Running"

\* the cell at the pc is no opcode: a number above 21, a register selector or
\* an invalid cell
NoOpcode == state # "Panicked" /\ pc < Len(memory) /\ memory[pc + 1] > 21

\* C2: when the cell at the pc is not a known opcode, step returns Running,
\* the pc advances by exactly 1, and memory, registers, stack and input queue
\* are unchanged.
C2_UnknownOpcodeSkipped ==
    [][NoOpcode =>
          /\ state' = "Running"
          /\ pc' = pc + 1
          /\ UNCHANGED <<memory, registers, stack, input>>]_vars

\* 99, a register selector and an invalid cell of ProgUnknown were skipped
C2_Witness ==
    /\ memory = ProgUnknown
    /\ pc = 3
    /\ state = "Running"

\* this step is an `in` that reads load, the line read before it being save
\* (after save the machine is at the same `in`, so the two reads are two
\* consecutive steps)
ReadsLoadAfterSave == reads > 0 /\ lastLine = SAVE /\ Reads(LOAD)

C4_SaveFrame ==
    [][Reads(SAVE) =>
          /\ state' = "Running"
          /\ Self' = Self
          /\ delivered' = <<>>
          /\ Deserialize(file') = Self
          /\ Fetch("In")'
          /\ input' = <<>>]_vars

\* ProgEcho, with a stack and a register set, has just saved
C4_Witness ==
    /\ Len(memory) = Len(ProgEcho)
    /\ reads = 1
    /\ lastLine = SAVE
    /\ pc = 5
    /\ stack = <<7>>
    /\ registers[1] = 5
    /\ file # <<>>
    /\ Deserialize(file) = Self

\* the cell `in` writes to, given the cell that names it
HoldsAt(target, mem, regs, value) ==
    LET t == get_value_state(target) IN
    /\ t.tag # "Invalid"
    /\ t.tag = "Register" => regs[t.val] = value
    /\ t.tag = "Number" => mem[t.val + 1] = value

\* mem and regs are those of the machine snap but for the cell target names
SameBut(target, mem, regs, snap) ==
    LET t == get_value_state(target) IN
    /\ Len(mem) = Len(snap.memory)
    /\ \A i \in 1..Len(mem) :
          (t.tag = "Number" /\ i = t.val + 1) \/ mem[i] = snap.memory[i]
    /\ \A i \in 0..7 :
          (t.tag = "Register" /\ i = t.val) \/ regs[i] = snap.registers[i]

\* C5: `in` with an empty queue reading load leaves, at the end of the step,
\* the memory, registers and stack of the stored snapshot but for the one
\* destination write; the destination named by the cell after the snapshot's
\* pc holds `l`; the queue holds o, o, k, newline; and pc is the snapshot's pc
\* plus 2.
C5_LoadReplaces ==
    [][(Reads(LOAD) /\ state' # "Panicked") =>
          LET snap == Deserialize(file)
              target == snap.memory[snap.pc + 2]
          IN  /\ state' = "Running"
              /\ stack' = snap.stack
              /\ pc' = snap.pc + 2
              /\ input' = <<111, 111, 107, 10>>
              /\ HoldsAt(target, memory', registers', 108)
              /\ SameBut(target, memory', registers', snap)]_vars

\* ProgEcho echoed the line a and then loaded the snapshot of ProgPrior:
\* nothing of ProgEcho is left
C5_Witness ==
    /\ reads = 2
    /\ lastLine = LOAD
    /\ Len(output) > 2
    /\ output[3] = 97
    /\ Len(memory) = Len(ProgPrior)
    /\ memory[13] = 108
    /\ stack = <<8>>
    /\ registers[1] = 0
    /\ registers[2] = 9
    /\ pc = 7
    /\ state = "Running"

\* C6: `in` with an empty queue reading a line with a non-ASCII byte returns
\* Running and leaves memory, registers, stack, pc and input queue unchanged:
\* nothing is queued or delivered, and the same `in` executes again.
C6_NonAsciiDiscarded ==
    [][ReadsNonAscii =>
          /\ state' = "Running"
          /\ Self' = Self
          /\ delivered' = <<>>
          /\ file' = file
          /\ Fetch("In")']_vars

\* ProgEcho was given a line that starts in ASCII and goes on outside it
C6_Witness ==
    /\ Len(memory) = Len(ProgEcho)
    /\ reads = 1
    /\ lastLine = <<97, 195, 169>>
    /\ input = <<>>
    /\ pc = 5
    /\ state = "Running"

\* an ASCII line that is neither command
Ordinary(line) == ~HasHighByte(line) /\ line \notin {SAVE, LOAD}

\* the cells delivered since an ordinary line was read, then the cells still
\* queued, are the line and its newline
InOrder ==
    (reads > 0 /\ Ordinary(lastLine) /\ state # "Panicked") =>
        delivered \o input = lastLine \o <<10>>

\* a line is read only by an `in` that finds the queue empty; an `in` that
\* finds a cell queued prints no prompt and takes that cell
ReadOnlyWhenEmpty ==
    /\ reads' # reads => Fetch("In") /\ input = <<>>
    /\ (Fetch("In") /\ input # <<>>) =>
          /\ output' = output
          /\ file' = file
          /\ input' = Tail(input)
          /\ state' = "Running" => delivered' = Append(delivered, Head(input))

\* a completed `in` has written the cell it took to its destination
WritesDelivered ==
    (Fetch("In") /\ state' = "Running" /\ ~Reads(SAVE) /\ ~ReadsNonAscii) =>
        /\ delivered' # <<>>
        /\ HoldsAt(IF Reads(LOAD)
                   THEN Deserialize(file).memory[Deserialize(file).pc + 2]
                   ELSE memory[pc + 2],
                   memory', registers', delivered'[Len(delivered')])

\* C7: input is delivered first in, first out, one cell per `in`: after an
\* ordinary ASCII line of n bytes is read with the queue empty, the completed
\* `in` instructions write its n bytes in order and then the newline 10, and
\* standard input is read only by an `in` that finds the queue empty.
C7_Fifo == []InOrder /\ [][ReadOnlyWhenEmpty /\ WritesDelivered]_vars

\* the line hi was read and its three cells were all delivered, in order
C7_Witness ==
    /\ reads > 0
    /\ lastLine = <<104, 105>>
    /\ delivered = <<104, 105, 10>>
    /\ input = <<>>
    /\ registers[0] = 10
    /\ state = "Running"

\* a call executes at the pc and does not fault
Calls == Fetch("Call") /\ state' # "Panicked"

\* a ret that pops the cell this call pushed resumes after the call: ret as
\* the code executes it on the stack the call leaves
RetResumes ==
    LET r == OpRet(Self') IN
    /\ r.ret = "Running"
    /\ r.vm.pc = pc + 2
    /\ r.vm.stack = stack

\* call pushes pc + 2 and jumps to value operand 1; ret on a stack that is
\* not empty pops the top cell and jumps to it
CallRet ==
    /\ (Fetch("Call") /\ state' # "Panicked") =>
          /\ stack' = Append(stack, pc + 2)
          /\ pc' = get_value(Self, 1)
    /\ (Fetch("Ret") /\ stack # <<>> /\ state' # "Panicked") =>
          /\ state' = "Running"
          /\ pc' = stack[Len(stack)]
          /\ stack' = SubSeq(stack, 1, Len(stack) - 1)

\* C8 as stated: call pushes pc + 2 and jumps, ret pops and jumps, and for
\* every p at which a call executes, a ret that pops the cell the call
\* pushed resumes at p + 2 without faulting.
C8_CallRetAsStated ==
    [][CallRet /\ (Calls => RetResumes)]_vars

\* C8, amended: the same for every p up to 32765, where p + 2 is still a
\* plain number.
C8_CallRet ==
    [][CallRet /\ ((Calls /\ pc <= MATH_MOD - 3) => RetResumes)]_vars

\* ProgCall has called F at 0, F has printed A and returned to 2
C8_Witness ==
    /\ memory = ProgCall
    /\ pc = 2
    /\ stack = <<>>
    /\ output = <<65>>
    /\ state = "Running"

\* C9: ret on an empty stack makes step return Complete without a fault and
\* leaves memory, registers, stack, pc and input queue unchanged; the loop of
\* run ends on that value.
C9_RetOnEmptyStack ==
    [][(Fetch("Ret") /\ stack = <<>>) =>
          /\ state' = "Complete"
          /\ Self' = Self]_vars

\* ProgRet has executed its ret, at 1, on the empty stack
C9_Witness ==
    /\ memory = ProgRet
    /\ pc = 1
    /\ stack = <<>>
    /\ state = "Complete"

\* the machine is at `add r0 r1 4; out r0; halt` with 65 in register 1, put
\* there by the set before it, and 0 in register 0
AtAdd ==
    /\ pc = 3
    /\ SubSeq(memory, pc + 1, pc + 7) = <<9, 32768, 32769, 4, 19, 32768, 0>>
    /\ registers[0] = 0
    /\ registers[1] = 65
    /\ output = <<>>

\* C10 as stated: the program writes the one character A (65), then halts.
C10_OutputAsStated ==
    memory = ProgAdd =>
        /\ state # "Panicked"
        /\ pc = 3 => AtAdd
        /\ state = "Complete" => output = <<65>>

\* C10, amended: the program writes the one character E (69 = 65 + 4), then
\* halts.
C10_Output ==
    memory = ProgAdd =>
        /\ state # "Panicked"
        /\ pc = 3 => AtAdd
        /\ pc < 9 => output = <<>> /\ state = "Running"
        /\ pc = 9 => output = <<69>>
        /\ state = "Complete" => pc = 9

\* ProgAdd has halted
C10_Witness ==
    /\ memory = ProgAdd
    /\ state = "Complete"
    /\ pc = 9
    /\ registers[0] = 69
    /\ output = <<69>>

\* the instruction whose opcode cell is `code` acts as eq: with its operands
\* in the image and a destination that can be written, the step writes 1 to
\* the destination if value operands 2 and 3 are equal and 0 if not, and
\* moves the pc past the three operands
ActsAsEq(code) ==
    (/\ state # "Panicked"
     /\ pc + 3 < Len(memory)
     /\ memory[pc + 1] = code
     /\ set_memory_ok(Self, memory[pc + 2])) =>
        /\ state' = "Running"
        /\ pc' = pc + 4
        /\ HoldsAt(memory[pc + 2], memory', registers',
                   IF get_value(Self, 2) = get_value(Self, 3) THEN 1 ELSE 0)

\* C11 as stated: the instruction whose raw opcode value is 7 writes 1 to its
\* destination when its two value operands are equal and 0 when they are
\* not, and then advances the pc past its operands.
C11_EqIsOpcode7 == [][ActsAsEq(7)]_vars

\* C11, amended: that instruction is the one whose raw opcode value is 4
\* (7 is jt).
C11_EqIsOpcode4 == [][ActsAsEq(4)]_vars

\* ProgEq has compared equal numbers into r0, unequal cells into [14] and
\* equal invalid cells into r1
C11_Witness ==
    /\ Len(memory) = Len(ProgEq)
    /\ SubSeq(memory, 1, 13) = SubSeq(ProgEq, 1, 13)
    /\ pc = 12
    /\ registers[0] = 1
    /\ memory[15] = 0
    /\ registers[1] = 1
    /\ state = "Running"

\* the cell that the destination `target` names
DestCell(target, mem, regs) ==
    LET t == get_value_state(target) IN
    IF t.tag = "Register" THEN regs[t.val] ELSE mem[t.val + 1]

\* C12: for all cells a and b with b # 0, the cell the mod opcode writes is
\* reduced modulo 32768: it lies in 0..32767, also when a or b is a raw value
\* of 32768 or more.
C12_ModReduced ==
    [][(Fetch("Mod") /\ state' = "Running") =>
          DestCell(memory[pc + 2], memory', registers') \in 0..(MATH_MOD - 1)]_vars

\* the machine runs ProgArith on the cells registers 0 and 1 hold
IsArith == Len(memory) = 37 /\ SubSeq(memory, 1, 33) = ArithCode

\* the product of two 16-bit cells, exactly, as its high and low 16 bits: it
\* is summed from the products by the high and the low byte of a, none of
\* which leaves the 32-bit integers
ProductRest(a, b) == (((a \div 256) * b) % 256) * 256 + (a % 256) * b

ProductHigh(a, b) == ((a \div 256) * b) \div 256 + ProductRest(a, b) \div U16

ProductLow(a, b) == ProductRest(a, b) % U16

\* C13: for all 16-bit cells a and b, add(a, b) is (a + b) mod 32768 and
\* multiply(a, b) is (a * b) mod 32768, the product fitting the 32 bits it is
\* computed in; both results lie in 0..32767; and both operations commute.
C13_AddMultiply ==
    (IsArith /\ pc >= 22) =>
        LET a == registers[0]
            b == registers[1]
        IN  /\ registers[2] = (a + b) % 32768
            /\ registers[3] = registers[2]
            /\ ProductHigh(a, b) < U16
            /\ registers[4] = ProductLow(a, b) % 32768
            /\ registers[5] = registers[4]
            /\ \A i \in 2..5 : registers[i] \in 0..32767

\* both sums and both products of 65535 and 65535 are computed
C13_Witness ==
    /\ IsArith
    /\ pc = 22
    /\ registers[0] = 65535
    /\ registers[1] = 65535
    /\ registers[2] = 32766
    /\ registers[4] = 1

\* C14: mod with value operand 3 resolving to the raw value 0 is a fatal
\* fault for every dividend: the step panics, nothing is written, and no
\* instruction executes after a panic.
C14_ModByZero ==
    [][/\ state # "Panicked"
       /\ (Fetch("Mod") /\ InBounds(Self, 3) /\ get_value(Self, 3) = 0) =>
             /\ state' = "Panicked"
             /\ Self' = Self]_vars

\* ProgArith has faulted at its mod, dividing 40000 by 0
C14_Witness ==
    /\ IsArith
    /\ pc = 28
    /\ registers[0] = 40000
    /\ registers[1] = 0
    /\ memory[37] = 0
    /\ state = "Panicked"

\* C15: pop on an empty stack is a fatal fault whatever the destination
\* operand is: the step panics, neither a register nor a memory cell is
\* written, pc does not advance, and no instruction executes after it.
C15_PopOnEmptyStack ==
    [][/\ state # "Panicked"
       /\ (pc < Len(memory) /\ memory[pc + 1] = 3 /\ stack = <<>>) =>
             /\ state' = "Panicked"
             /\ memory' = memory
             /\ registers' = registers
             /\ pc' = pc
             /\ stack' = <<>>]_vars

\* pop into memory cell 2 has faulted on the empty stack
C15_Witness ==
    /\ memory = ProgPopTo(2)
    /\ pc = 1
    /\ stack = <<>>
    /\ state = "Panicked"

\* the cell behind operand `offset`, a register selector resolved
Resolved(offset) ==
    LET v == memory[pc + offset + 1] IN
    IF 32768 <= v /\ v <= 32775 THEN registers[v - 32768] ELSE v

\* the values the instruction at pc has to convert to plain numbers
RequiredNumbers ==
    IF pc >= Len(memory) THEN {}
    ELSE LET code == memory[pc + 1] IN
         IF code \in {6, 17} /\ pc + 1 < Len(memory) THEN {Resolved(1)}
         ELSE IF code \in {7, 8} /\ pc + 2 < Len(memory)
         THEN {Resolved(1)} \cup
              (IF (code = 7 /\ Resolved(1) \in 1..32767) \/ (code = 8 /\ Resolved(1) = 0)
               THEN {Resolved(2)} ELSE {})
         ELSE IF code = 15 /\ pc + 2 < Len(memory) THEN {Resolved(2)}
         ELSE IF code = 16 /\ pc + 2 < Len(memory) THEN {Resolved(1)}
         ELSE IF code = 18 /\ stack # <<>> THEN {stack[Len(stack)]}
         ELSE {}

\* C16: an instruction that requires a plain number (target of jmp,
\* condition of jt and jf, target of a taken jt or jf, address of rmem and of
\* wmem, target of call, address popped by ret) panics when that value is
\* 32768 or more, register selector or invalid: pc, memory and registers
\* stay as they were, and no instruction executes after the panic.
C16_NumberRequired ==
    [][/\ state # "Panicked"
       /\ (\E v \in RequiredNumbers : v >= 32768) =>
             /\ state' = "Panicked"
             /\ pc' = pc
             /\ memory' = memory
             /\ registers' = registers]_vars

\* jmp r0 has faulted with the register selector 32768 in register 0
C16_Witness ==
    /\ memory = ProgNumber(1, 32768)
    /\ pc = 3
    /\ registers[0] = 32768
    /\ state = "Panicked"

\* C17: bit_not is an involution on plain numbers: for x in 0..32767,
\* not x is the 15-bit complement 32767 - x, a plain number, and not of it
\* is x again.
C17_NotInvolution ==
    (IsArith /\ pc >= 28 /\ registers[0] <= 32767) =>
        /\ registers[6] = 32767 - registers[0]
        /\ registers[6] \in 0..32767
        /\ registers[7] = registers[0]

\* not 21845 is 10922, and not 10922 is 21845
C17_Witness ==
    /\ IsArith
    /\ pc = 28
    /\ registers[0] = 21845
    /\ registers[6] = 10922
    /\ registers[7] = 21845

\* c is classified as exactly one of the three classes, the one of its range
Classified(c) ==
    LET s == get_value_state(c) IN
    /\ s.tag \in {"Number", "Register", "Invalid"}
    /\ (0 <= c /\ c <= 32767) <=> s.tag = "Number"
    /\ (32768 <= c /\ c <= 32775) <=> s.tag = "Register"
    /\ (32776 <= c /\ c <= 65535) <=> s.tag = "Invalid"
    /\ s.tag = "Number" => s.val = c
    /\ s.tag = "Register" => s.val = c - 32768 /\ s.val \in 0..7

\* C18: get_value_state puts every 16-bit cell the machine holds (memory,
\* registers, stack) into exactly one class: 0..32767 is Number of the raw
\* value, 32768..32775 is Register of raw - 32768, an index in 0..7, and
\* 32776..65535 is Invalid.
C18_Classification ==
    /\ \A i \in 1..Len(memory) : Classified(memory[i])
    /\ \A i \in 0..7 : Classified(registers[i])
    /\ \A i \in 1..Len(stack) : Classified(stack[i])

\* registers 0 and 1 hold the last register selector and the first invalid
\* cell, next to the plain numbers of the image
C18_Witness ==
    /\ IsArith
    /\ pc = 6
    /\ registers[0] = 32775
    /\ registers[1] = 32776
    /\ memory[1] = 15

\* the machine the destination is decided in: the snapshot when this step is
\* an `in` that reads load, the machine itself otherwise
Base == IF Reads(LOAD) /\ file # <<>> THEN Deserialize(file) ELSE Self

\* the opcodes that write through address operand 1, with their arities
WriterCodes == {3, 4, 5, 9, 10, 11, 12, 13, 14, 15, 20}

WriterArity(code) ==
    IF code \in {3, 20} THEN 1 ELSE IF code \in {14, 15} THEN 2 ELSE 3

\* this step executes a writer whose operands lie in the image and which has
\* a result to write: no empty stack for pop, no zero divisor for mod, an
\* address in the image for rmem, a character to deliver for `in`
WriterStep ==
    /\ state # "Panicked"
    /\ state = "Complete" => resumed < MaxResumed
    /\ pc < Len(memory)
    /\ memory[pc + 1] \in WriterCodes
    /\ Base.pc + WriterArity(memory[pc + 1]) < Len(Base.memory)
    /\ memory[pc + 1] = 3 => stack # <<>>
    /\ memory[pc + 1] = 11 => Resolved(3) # 0
    /\ memory[pc + 1] = 15 => Resolved(2) < Len(memory)
    /\ memory[pc + 1] = 20 =>
          \/ input # <<>>
          \/ Reads(LOAD) /\ file # <<>>
          \/ \E line \in Lines : Ordinary(line) /\ Reads(line)

\* the raw cell at pc + 1
Target == Base.memory[Base.pc + 2]

\* the result the writer has for its destination
Written ==
    LET code == memory[pc + 1] IN
    CASE code = 3 -> stack[Len(stack)]
      [] code = 4 -> IF Resolved(2) = Resolved(3) THEN 1 ELSE 0
      [] code = 5 -> IF Resolved(2) > Resolved(3) THEN 1 ELSE 0
      [] code = 9 -> ValueAdd(Resolved(2), Resolved(3))
      [] code = 10 -> ValueMul(Resolved(2), Resolved(3))
      [] code = 11 -> ValueRem(Resolved(2), Resolved(3))
      [] code = 12 -> ValueBitAnd(Resolved(2), Resolved(3))
      [] code = 13 -> ValueBitOr(Resolved(2), Resolved(3))
      [] code = 14 -> ValueNot(Resolved(2))
      [] code = 15 -> memory[Resolved(2) + 1]
      [] code = 20 -> delivered'[Len(delivered')]

\* the number of memory cells and registers that differ after the step
Changed ==
    Cardinality({i \in 1..Len(memory') : memory'[i] # Base.memory[i]})
        + Cardinality({i \in 0..7 : registers'[i] # Base.registers[i]})

\* the step has faulted and written neither memory nor registers
FaultsUnwritten ==
    /\ state' = "Panicked"
    /\ memory' = Base.memory
    /\ registers' = Base.registers

\* the step has written register i and nothing else
WritesRegister(i) ==
    /\ state' = "Running"
    /\ registers'[i] = Written
    /\ memory' = Base.memory

\* the step has written memory cell n and nothing else
WritesMemory(n) ==
    /\ state' = "Running"
    /\ Len(memory') = Len(Base.memory)
    /\ n < Len(memory')
    /\ memory'[n + 1] = Written
    /\ registers' = Base.registers

\* C19 as stated: the raw cell at pc + 1 alone decides where the result of a
\* writer lands: 32768 + i writes register i, every plain number n writes
\* memory cell n, an invalid cell faults with nothing written; and exactly
\* one cell changes when the step writes.
C19_DestinationAsStated ==
    [][WriterStep =>
          /\ (32768 <= Target /\ Target <= 32775) =>
                WritesRegister(Target - 32768) /\ Changed = 1
          /\ Target <= 32767 => WritesMemory(Target) /\ Changed = 1
          /\ Target >= 32776 => FaultsUnwritten]_vars

\* C19, amended: the raw cell at pc + 1 alone decides where the result of a
\* writer lands: 32768 + i writes register i and leaves memory unchanged, a
\* plain number n inside the image writes memory cell n and leaves the
\* registers unchanged, and a plain number at or past the end of the image,
\* like an invalid cell, faults with neither memory nor registers written.
\* At most one cell changes: none when the result is what the cell held.
C19_Destination ==
    [][WriterStep =>
          /\ (32768 <= Target /\ Target <= 32775) =>
                WritesRegister(Target - 32768)
          /\ Target < Len(Base.memory) => WritesMemory(Target)
          /\ (Len(Base.memory) <= Target /\ Target <= 32767) => FaultsUnwritten
          /\ Target >= 32776 => FaultsUnwritten
          /\ Changed <= 1]_vars

\* add has written 7 into the last cell of the image, and nothing else
C19_Witness ==
    /\ memory = [ProgWrite(4, 8) EXCEPT ![9] = 7]
    /\ registers = [i \in 0..7 |-> 0]
    /\ pc = 6
    /\ state = "Running"

\* C20: the halted state is absorbing: once step has returned Complete, on
\* halt or on ret with an empty stack, every further call of step returns
\* Complete again and leaves memory, registers, stack, pc and input queue
\* unchanged, and writes no output; the machine never goes back to Running.
C20_HaltedAbsorbing ==
    [][state = "Complete" =>
          /\ state' = "Complete"
          /\ Self' = Self
          /\ output' = output
          /\ resumed' = resumed + 1]_vars

\* step has been called twice on a machine halted by ret on the empty stack
C20_Witness ==
    /\ state = "Complete"
    /\ resumed = 2
    /\ pc < Len(memory)
    /\ memory[pc + 1] = 18
    /\ stack = <<>>

====
